---- MODULE Spec2Model ----
(***************************************************************************)
(* Model of the ephemeral build-and-run sandbox of the health-check route  *)
(* (src/unnamed/part_003; src/unnamed/part_002 is the same handler with    *)
(* `await params`).  One POST invocation is a "run": it removes and        *)
(* re-creates temp-projects/<projectId>, writes the generated files,       *)
(* installs, runs the setup commands, builds, starts the server, probes    *)
(* it, records it in the module-level map runningProjects and schedules a  *)
(* 5-minute cleanup timer.  GET reads runningProjects and probes.          *)
(*                                                                         *)
(* Every action is one turn of the Node event loop: the code between two   *)
(* awaits (or one timer / child-process callback), taken atomically.       *)
(***************************************************************************)
EXTENDS Naturals, FiniteSets, Sequences

\* ------------------------------------------------------------------ bounds
MaxRuns == 2        \* POST invocations over the life of the server process
NumProjects == 2    \* distinct project identifiers
NumSetup == 2       \* stored setup commands of a project's latest request
NumFiles == 1       \* a bundle holds 0..NumFiles generated files
MaxSegs == 3        \* segments of one file path of a bundle
MaxChunks == 2      \* 'data' events per stream of one child process
RandGrid == 2       \* Math.random() is drawn at RandGrid points of [0, 1)
RandUnits == 1000   \* Math.random() is a multiple of 1/RandUnits, below 1

\* ------------------------------------------------------- program constants
PortLow == 3001
PortHigh == 9999

Runs == 1..MaxRuns
Projects == 1..NumProjects

NoRun == 0
NoEntry == [port |-> 0, process |-> NoRun, tempDir |-> 0, startedAt |-> 0]
NoResult == [success |-> "none", step |-> "none", status |-> 0]

VARIABLES
  runningProjects,  \* the module-level Map: project id -> entry (or NoEntry)
  dirs,             \* temp-projects/<id>: does it exist, whose files it holds
  runs,             \* per POST invocation: where the handler is, what it saw
  procs,            \* per run: the child process startServer spawned
  startTimer,       \* per run: startServer's 30 s setTimeout
  reaper,           \* per run: POST's 300 s setTimeout callback
  status,           \* the GET invocation in flight (one at a time)
  rmRejected,       \* history: some fs.rm of a tempDir has rejected so far
  write,            \* one entry of the bundle on its way to the disk
  cmd,              \* one invocation of runCommand
  manifest,         \* one pass of the package.json step
  split             \* one stored setup command on its way to runCommand

\* the handlers and timers of the route
sandbox == <<runningProjects, dirs, runs, procs, startTimer, reaper, status, rmRejected>>

\* the helpers looked at one invocation at a time
units == <<write, cmd, manifest, split>>

vars == <<sandbox, units>>

NoWrite == [pc |-> "none", file |-> <<>>, target |-> <<>>]
NoCmd == [pc |-> "none"]
NoManifest == [pc |-> "none"]
NoSplit == [pc |-> "none"]

\* path.join(process.cwd(), 'temp-projects', projectId): one directory per id
tempDirOf(p) == p

\* the values of Math.random() that are drawn, as numerators over RandUnits:
\* from 0 up to the largest value below 1
RandDraws == {(i * (RandUnits - 1)) \div (RandGrid - 1) : i \in 0..(RandGrid - 1)}

\* the lower end of the range is not added
PortOf_NoOffset(n) == (n * (PortHigh - PortLow)) \div RandUnits

\* Math.floor(Math.random() * (9999 - 3001) + 3001), with Math.random() = n/RandUnits
PortOf(n) == ((n * (PortHigh - PortLow)) \div RandUnits) + PortLow

IdleRun ==
  [pc |-> "idle", proj |-> 0, prior |-> NoRun, install |-> "none", setupRun |-> 0,
   build |-> "none", port |-> 0, launch |-> "none", health |-> "none",
   result |-> NoResult,
   pre |-> "none",       \* what the checks of lines 22-66 found
   blob |-> "none",      \* generatedApis[0].code: "valid" or "invalid" once parsed
   cmds |-> <<>>,        \* apiRequest.setupCommands as the query returned them
   setupLog |-> <<>>,    \* history: `order` of every setup command spawned so far
   setupFail |-> FALSE]  \* history: some setup command resolved {success: false}

IdleStatus == [pc |-> "idle", entry |-> NoEntry, result |-> "none", health |-> "none"]

NoDir == [exists |-> FALSE, files |-> {}]

SandboxInit ==
  /\ runningProjects = [p \in Projects |-> NoEntry]
  /\ dirs = [p \in Projects |-> NoDir]
  /\ runs = [r \in Runs |-> IdleRun]
  /\ procs = [r \in Runs |-> "none"]
  /\ startTimer = [r \in Runs |-> "unset"]
  /\ reaper = [r \in Runs |-> "unset"]
  /\ status = IdleStatus
  /\ rmRejected = FALSE

Init ==
  /\ SandboxInit
  /\ write = NoWrite
  /\ cmd = NoCmd
  /\ manifest = NoManifest
  /\ split = NoSplit

\* ------------------------------------------------------------ small helpers

\* NextResponse.json bodies, reduced to the fields the callers look at
Failure(step) == [success |-> "false", step |-> step, status |-> 500]
Caught == [success |-> "false", step |-> "absent", status |-> 500]
Success == [success |-> "true", step |-> "absent", status |-> 200]
Rejected(code) == [success |-> "absent", step |-> "absent", status |-> code]

PreconditionCodes == {401, 404, 400}

\* lines 22-66: userId, project and apiRequest as the three checks find them
PreOutcomes == {"ok", "unauthenticated", "notFound", "notCompleted"}

\* the status each failed check answers with
CodeOf(pre) ==
  CASE pre = "unauthenticated" -> 401
    [] pre = "notFound" -> 404
    [] pre = "notCompleted" -> 400

\* the handler goes on whatever the checks found
Admits_Always(pre) == TRUE

\* lines 25, 51, 61: each failed check returns at once
Admits(pre) == pre = "ok"

\* nothing is removed
fsRm_Noop(d, ok) == d

\* fs.rm(tempDir, {recursive: true, force: true}): the tree is gone, or rm rejected
fsRm(d, ok) == IF ok THEN NoDir ELSE d

\* fs.mkdir(tempDir, {recursive: true}): creates it, keeps what is there
fsMkdir(d) == [d EXCEPT !.exists = TRUE]

\* the per-file mkdir(dirname) + writeFile of Promise.all: the files of run r are
\* there, and so is every directory above them (tempDir included)
fsWriteFiles(d, r) == [exists |-> TRUE, files |-> d.files \cup {r}]

\* ChildProcess.kill(): a live child is signalled; an exited one is left as it is
Kill(st) == IF st = "live" THEN "killed" ELSE st

\* the timer settles the promise and leaves the child alone
TimerKill_NoKill(st) == st

\* `if (!serverProcess.killed) serverProcess.kill()` of startServer's timer
TimerKill(st) == Kill(st)

\* `if (runningProject?.process) runningProject.process.kill()` of the reaper
ReaperKill(ps, entry) ==
  IF entry.process # NoRun THEN [ps EXCEPT ![entry.process] = Kill(@)] ELSE ps

\* the install result is not looked at
InstallContinues_Always(ok) == TRUE

\* `if (!installResult.success) return ...`
InstallContinues(ok) == ok

\* the build result is not looked at
BuildContinues_Always(ok) == TRUE

\* `if (!buildResult.success) return ...`
BuildContinues(ok) == ok

\* a blob that does not parse is taken as a bundle
ParseContinues_Always(valid) == TRUE

\* JSON.parse(apiRequest.generatedApis[0].code) inside try/catch: a throw returns 500
ParseContinues(valid) == valid

\* every call of resolve replaces the promise's value
Resolve_LastWins(cur, outcome) == outcome

\* resolve(...) of startServer's promise: the first call settles it, later calls
\* are ignored
Resolve(cur, outcome) == IF cur = "Starting" THEN outcome ELSE cur

\* the 300 s timer is not armed
ArmReaper_Never(rs, r) == rs

\* setTimeout(async () => {...}, 300000) right after runningProjects.set
ArmReaper(rs, r) == [rs EXCEPT ![r] = "pending"]

\* the launch result is not looked at
LaunchContinues_Always(outcome) == TRUE

\* `if (!serverResult.success) return ...`: only {success: true} goes on
LaunchContinues(outcome) == outcome = "Ready"

\* the setup_commands rows of one request carry the orders 1..n (the generator
\* writes them so); the table hands them out in any physical order
StoredOrders ==
  {s \in [1..NumSetup -> 1..NumSetup] : \A i, j \in 1..NumSetup : s[i] = s[j] => i = j}

RECURSIVE Insert(_, _)
Insert(x, s) ==
  IF s = <<>> THEN <<x>>
  ELSE IF x < Head(s) THEN <<x>> \o s
  ELSE <<Head(s)>> \o Insert(x, Tail(s))

RECURSIVE SortAsc(_)
SortAsc(s) == IF s = <<>> THEN <<>> ELSE Insert(Head(s), SortAsc(Tail(s)))

\* the rows come back as the table holds them
OrderByAsc_Unsorted(rows) == rows

\* setupCommands: { orderBy: { order: 'asc' } }
OrderByAsc(rows) == SortAsc(rows)

\* a failed setup command ends the run
SetupContinues_FailFast(ok) == ok

\* `if (!setupResult.success) console.warn(...)`: nothing else looks at it
SetupContinues(ok) == TRUE

\* a failed probe ends the run
ProbeContinues_FailFast(ok) == ok

\* healthResult is stored in the response body and never tested
ProbeContinues(ok) == TRUE

\* the map is read under the first key, whatever the id
Get_FirstKey(rp, p) == rp[1]

\* runningProjects.get(projectId)
Get(rp, p) == rp[p]

\* an entry is taken to be there whatever the map returned
IsRunning_Always(entry) == TRUE

\* `if (!runningProject)` of GET
IsRunning(entry) == entry # NoEntry

\* fetch(url) reaches a server only if some live child listens on that port
ProbeOutcomes(port) ==
  {FALSE} \cup {ok \in {TRUE} : \E r \in Runs : procs[r] = "live" /\ runs[r].port = port}

\* a handler's turn ends with its response; nothing else runs inside that turn
Turn == status.pc # "done"

\* invocations are numbered in the order they arrive
NextToStart(r) ==
  /\ Turn
  /\ runs[r].pc = "idle"
  /\ \A q \in Runs : q < r => runs[q].pc # "idle"

\* project identifiers are numbered in the order POST first sees them
FirstUse(p) == \A q \in Projects : q < p => \E r \in Runs : runs[r].proj = q

Return(r, res) == [runs EXCEPT ![r].pc = "done", ![r].result = res]

\* ------------------------------------------------------------------- POST

\* lines 22-66: 401 / 404 / 400, all before the bundle is parsed
POST_Reject(r) ==
  /\ NextToStart(r)
  /\ \E p \in Projects, pre \in PreOutcomes :
       /\ FirstUse(p)
       /\ ~Admits(pre)
       /\ runs' = [runs EXCEPT ![r].pc = "done", ![r].proj = p, ![r].pre = pre,
                                ![r].prior = runningProjects[p].process,
                                ![r].result = Rejected(CodeOf(pre))]
  /\ UNCHANGED <<runningProjects, dirs, procs, startTimer, reaper, status, rmRejected, units>>

\* lines 33-92: the project is read with its setup commands and the bundle is
\* parsed; a parse failure answers 500, otherwise tempDir is computed and
\* fs.rm(tempDir) is awaited
POST_Begin(r) ==
  /\ NextToStart(r)
  /\ \E p \in Projects, pre \in PreOutcomes, rows \in StoredOrders, valid \in BOOLEAN :
       /\ FirstUse(p)
       /\ Admits(pre)
       /\ LET rs == [runs EXCEPT ![r].proj = p,
                                 ![r].pre = pre,
                                 ![r].blob = IF valid THEN "valid" ELSE "invalid"]
          IN  runs' = IF ParseContinues(valid)
                      THEN [rs EXCEPT ![r].pc = "rmOld",
                                      ![r].prior = runningProjects[p].process,
                                      ![r].cmds = OrderByAsc(rows)]
                      ELSE [rs EXCEPT ![r].pc = "done", ![r].result = Rejected(500)]
  /\ UNCHANGED <<runningProjects, dirs, procs, startTimer, reaper, status, rmRejected, units>>

\* lines 91-97: rm settles (a rejection is swallowed), fs.mkdir is awaited
RmOldDone(r) ==
  /\ Turn
  /\ runs[r].pc = "rmOld"
  /\ \E ok \in BOOLEAN :
       /\ dirs' = [dirs EXCEPT ![tempDirOf(runs[r].proj)] = fsRm(@, ok)]
       /\ rmRejected' = (rmRejected \/ ~ok)
  /\ runs' = [runs EXCEPT ![r].pc = "mkdir"]
  /\ UNCHANGED <<runningProjects, procs, startTimer, reaper, status, units>>

\* lines 97-113: mkdir settles; the file writes start, or the catch of line 244 runs
MkdirDone(r) ==
  /\ Turn
  /\ runs[r].pc = "mkdir"
  /\ \/ /\ dirs' = [dirs EXCEPT ![tempDirOf(runs[r].proj)] = fsMkdir(@)]
        /\ runs' = [runs EXCEPT ![r].pc = "write"]
     \/ /\ runs' = [runs EXCEPT ![r].pc = "catchRm"]
        /\ UNCHANGED dirs
  /\ UNCHANGED <<runningProjects, procs, startTimer, reaper, status, rmRejected, units>>

\* lines 102-123: Promise.all of the writes settles; package.json is read next.
\* The bundle (n files) is read here and nowhere else, so it is drawn here.
WriteDone(r) ==
  /\ Turn
  /\ runs[r].pc = "write"
  /\ \E n \in 0..NumFiles :
       \/ /\ dirs' = IF n > 0
                      THEN [dirs EXCEPT ![tempDirOf(runs[r].proj)] = fsWriteFiles(@, r)]
                      ELSE dirs
          /\ runs' = [runs EXCEPT ![r].pc = "manifest"]
       \/ /\ n > 0      \* one write rejected, before or after the others
          /\ \E wrote \in BOOLEAN :
               dirs' = IF wrote
                       THEN [dirs EXCEPT ![tempDirOf(runs[r].proj)] = fsWriteFiles(@, r)]
                       ELSE dirs
          /\ runs' = [runs EXCEPT ![r].pc = "catchRm"]
  /\ UNCHANGED <<runningProjects, procs, startTimer, reaper, status, rmRejected, units>>

\* lines 117-153: package.json read (or synthesized), scripts merged, written back;
\* writeFile rejects when tempDir is gone; then `npm install` is spawned
ManifestDone(r) ==
  /\ Turn
  /\ runs[r].pc = "manifest"
  /\ \/ /\ dirs[tempDirOf(runs[r].proj)].exists
        /\ runs' = [runs EXCEPT ![r].pc = "install"]
     \/ /\ runs' = [runs EXCEPT ![r].pc = "catchRm"]
  /\ UNCHANGED <<runningProjects, dirs, procs, startTimer, reaper, status, rmRejected, units>>

\* lines 244-263: the inner catch removes tempDir (errors ignored) and rethrows;
\* the outer catch answers 500 with error and message
CatchRmDone(r) ==
  /\ Turn
  /\ runs[r].pc = "catchRm"
  /\ \E ok \in BOOLEAN :
       /\ dirs' = [dirs EXCEPT ![tempDirOf(runs[r].proj)] = fsRm(@, ok)]
       /\ rmRejected' = (rmRejected \/ ~ok)
  /\ runs' = Return(r, Caught)
  /\ UNCHANGED <<runningProjects, procs, startTimer, reaper, status, units>>

\* lines 165-179: the for-of loop spawns the next command of the query result,
\* or, past the last one, `npm run build`
StartNextSetup(rs, r) ==
  IF rs[r].setupRun < Len(rs[r].cmds)
  THEN [rs EXCEPT ![r].pc = "setup",
                  ![r].setupLog = Append(@, rs[r].cmds[rs[r].setupRun + 1])]
  ELSE [rs EXCEPT ![r].pc = "build"]

\* lines 153-169: runCommand('npm', ['install']) resolves
InstallDone(r) ==
  /\ Turn
  /\ runs[r].pc = "install"
  /\ \E ok \in BOOLEAN :
       IF InstallContinues(ok)
       THEN runs' = StartNextSetup([runs EXCEPT ![r].install =
                                                      IF ok THEN "ok" ELSE "fail"], r)
       ELSE runs' = [Return(r, Failure("npm install")) EXCEPT ![r].install = "fail"]
  /\ UNCHANGED <<runningProjects, dirs, procs, startTimer, reaper, status, rmRejected, units>>

\* lines 165-179: one setup command resolves; its failure is only logged
SetupDone(r) ==
  /\ Turn
  /\ runs[r].pc = "setup"
  /\ \E ok \in BOOLEAN :
       LET rs == [runs EXCEPT ![r].setupRun = @ + 1,
                              ![r].setupFail = @ \/ ~ok]
       IN  runs' = IF SetupContinues(ok)
                   THEN StartNextSetup(rs, r)
                   ELSE [rs EXCEPT ![r].pc = "done", ![r].result = Failure("setup")]
  /\ UNCHANGED <<runningProjects, dirs, procs, startTimer, reaper, status, rmRejected, units>>

\* lines 179-194 and 352-385: `npm run build` resolves; on success the port is
\* drawn and startServer spawns `npm start` and arms its 30 s timer
BuildDone(r) ==
  /\ Turn
  /\ runs[r].pc = "build"
  /\ \E ok \in BOOLEAN :
       IF BuildContinues(ok)
       THEN \E i \in RandDraws, spawned \in BOOLEAN :
              /\ runs' = [runs EXCEPT ![r].build = IF ok THEN "ok" ELSE "fail",
                                      ![r].port = PortOf(i),
                                      ![r].launch = "Starting",
                                      ![r].pc = "launch"]
              /\ procs' = [procs EXCEPT ![r] = IF spawned THEN "live" ELSE "spawnerr"]
              /\ startTimer' = [startTimer EXCEPT ![r] = "pending"]
       ELSE /\ runs' = [Return(r, Failure("npm run build")) EXCEPT ![r].build = "fail"]
            /\ UNCHANGED <<procs, startTimer>>
  /\ UNCHANGED <<runningProjects, dirs, reaper, status, rmRejected, units>>

\* ------------------------------------------------------------ startServer

\* lines 194-207: the launch promise settles with `outcome`; POST either answers
\* 'server start' or goes on to testHealthEndpoint
AfterLaunch(r, outcome) ==
  IF LaunchContinues(outcome)
  THEN [runs EXCEPT ![r].launch = outcome, ![r].pc = "probe"]
  ELSE [Return(r, Failure("server start")) EXCEPT ![r].launch = outcome]

\* an event handler of startServer calls resolve(outcome): POST's await resumes
\* only if this call settled the promise
Settle(r, outcome) ==
  IF runs[r].launch = "Starting"
  THEN AfterLaunch(r, Resolve(runs[r].launch, outcome))
  ELSE [runs EXCEPT ![r].launch = Resolve(@, outcome)]

\* lines 367-373: stdout holds a readiness phrase; the promise resolves with the
\* child (a later match resolves nothing)
ServerReady(r) ==
  /\ Turn
  /\ procs[r] = "live"
  /\ runs[r].launch = "Starting"
  /\ runs' = Settle(r, "Ready")
  /\ UNCHANGED <<runningProjects, dirs, procs, startTimer, reaper, status, rmRejected, units>>

\* lines 387-391: the child exits by itself; a non-zero code before readiness
\* settles the promise, code 0 settles nothing
ServerClose(r) ==
  /\ Turn
  /\ procs[r] = "live"
  /\ procs' = [procs EXCEPT ![r] = "exited"]
  /\ \E code \in {0, 1} :
       runs' = IF code # 0 THEN Settle(r, "ExitedEarly") ELSE runs
  /\ UNCHANGED <<runningProjects, dirs, startTimer, reaper, status, rmRejected, units>>

\* lines 393-395: spawn failed; 'error' is emitted on the next tick
ServerError(r) ==
  /\ Turn
  /\ procs[r] = "spawnerr"
  /\ procs' = [procs EXCEPT ![r] = "failed"]
  /\ runs' = Settle(r, "ExitedEarly")
  /\ UNCHANGED <<runningProjects, dirs, startTimer, reaper, status, rmRejected, units>>

\* lines 380-385: the 30 s timer, never cleared: kills the child unless kill()
\* was already called, and settles the promise if nothing settled it before
StartTimerFire(r) ==
  /\ Turn
  /\ startTimer[r] = "pending"
  /\ procs[r] # "spawnerr"
  /\ startTimer' = [startTimer EXCEPT ![r] = "fired"]
  /\ procs' = [procs EXCEPT ![r] = TimerKill(@)]
  /\ runs' = Settle(r, "TimedOut")
  /\ UNCHANGED <<runningProjects, dirs, reaper, status, rmRejected, units>>

\* ------------------------------------------------- registration and reaper

\* runningProjects.set(projectId, {port, process, tempDir, startedAt})
Register(rp, r) ==
  [rp EXCEPT ![runs[r].proj] = [port |-> runs[r].port, process |-> r,
                                tempDir |-> tempDirOf(runs[r].proj), startedAt |-> r]]

\* lines 207-242: the probe settles (it never throws); the instance is stored,
\* the 300 s cleanup is scheduled and the success body returned
ProbeDone(r) ==
  /\ Turn
  /\ runs[r].pc = "probe"
  /\ \E ok \in ProbeOutcomes(runs[r].port) :
       IF ProbeContinues(ok)
       THEN /\ runs' = [Return(r, Success) EXCEPT ![r].health = IF ok THEN "ok" ELSE "fail"]
            /\ runningProjects' = Register(runningProjects, r)
            /\ reaper' = ArmReaper(reaper, r)
       ELSE /\ runs' = [Return(r, Failure("health check")) EXCEPT ![r].health = "fail"]
            /\ UNCHANGED <<runningProjects, reaper>>
  /\ UNCHANGED <<dirs, procs, startTimer, status, rmRejected, units>>

\* lines 218-224: the timer callback of run r reads the map under its projectId,
\* kills whatever process the entry holds and awaits fs.rm(tempDir).  It was
\* armed after the run's 30 s timer and waits ten times as long.
ReaperFire(r) ==
  /\ Turn
  /\ reaper[r] = "pending"
  /\ startTimer[r] = "fired"
  /\ procs' = ReaperKill(procs, Get(runningProjects, runs[r].proj))
  /\ reaper' = [reaper EXCEPT ![r] = "rm"]
  /\ UNCHANGED <<runningProjects, dirs, runs, startTimer, status, rmRejected, units>>

\* after fs.rm resolved: runningProjects.delete(projectId)
ReaperDelete(rp, p) == [rp EXCEPT ![p] = NoEntry]

\* lines 224-229: rm resolves and the entry is deleted, or rm rejects and the
\* catch only logs
ReaperRmDone(r) ==
  /\ Turn
  /\ reaper[r] = "rm"
  /\ \/ /\ dirs' = [dirs EXCEPT ![tempDirOf(runs[r].proj)] = fsRm(@, TRUE)]
        /\ runningProjects' = ReaperDelete(runningProjects, runs[r].proj)
        /\ reaper' = [reaper EXCEPT ![r] = "done"]
        /\ UNCHANGED rmRejected
     \/ /\ reaper' = [reaper EXCEPT ![r] = "done"]
        /\ rmRejected' = TRUE
        /\ UNCHANGED <<dirs, runningProjects>>
  /\ UNCHANGED <<runs, procs, startTimer, status, units>>

\* -------------------------------------------------------------------- GET

\* lines 275-294: 401, or running: false, or the entry is kept and probed
GET_Begin(p) ==
  /\ status.pc = "idle"
  /\ \E authed \in BOOLEAN :
       status' = IF ~authed
                 THEN [IdleStatus EXCEPT !.pc = "done", !.result = "401"]
                 ELSE IF ~IsRunning(Get(runningProjects, p))
                 THEN [IdleStatus EXCEPT !.pc = "done", !.result = "notRunning"]
                 ELSE [IdleStatus EXCEPT !.pc = "probe", !.entry = Get(runningProjects, p)]
  /\ UNCHANGED <<runningProjects, dirs, runs, procs, startTimer, reaper, rmRejected, units>>

\* the handler drops the entry of an instance that failed the probe
GET_ProbeDone_DropsDead ==
  /\ status.pc = "probe"
  /\ \E ok \in ProbeOutcomes(status.entry.port) :
       /\ status' = [status EXCEPT !.pc = "done", !.result = "running",
                                   !.health = IF ok THEN "ok" ELSE "fail"]
       /\ runningProjects' =
            [p \in Projects |->
               IF ~ok /\ runningProjects[p] = status.entry THEN NoEntry
               ELSE runningProjects[p]]
  /\ UNCHANGED <<dirs, runs, procs, startTimer, reaper, rmRejected, units>>

\* lines 294-304: the probe settles; running: true with the kept entry's fields
GET_ProbeDone ==
  /\ status.pc = "probe"
  /\ \E ok \in ProbeOutcomes(status.entry.port) :
       status' = [status EXCEPT !.pc = "done", !.result = "running",
                                !.health = IF ok THEN "ok" ELSE "fail"]
  /\ UNCHANGED <<runningProjects, dirs, runs, procs, startTimer, reaper, rmRejected, units>>

\* the response leaves; the GET handler is free again
GET_Respond ==
  /\ status.pc = "done"
  /\ status' = IdleStatus
  /\ UNCHANGED <<runningProjects, dirs, runs, procs, startTimer, reaper, rmRejected, units>>

\* ------------------------------------------------------------------- Next

Next ==
  \/ \E r \in Runs : POST_Reject(r)
  \/ \E r \in Runs : POST_Begin(r)
  \/ \E r \in Runs : RmOldDone(r)
  \/ \E r \in Runs : MkdirDone(r)
  \/ \E r \in Runs : WriteDone(r)
  \/ \E r \in Runs : ManifestDone(r)
  \/ \E r \in Runs : CatchRmDone(r)
  \/ \E r \in Runs : InstallDone(r)
  \/ \E r \in Runs : SetupDone(r)
  \/ \E r \in Runs : BuildDone(r)
  \/ \E r \in Runs : ServerReady(r)
  \/ \E r \in Runs : ServerClose(r)
  \/ \E r \in Runs : ServerError(r)
  \/ \E r \in Runs : StartTimerFire(r)
  \/ \E r \in Runs : ProbeDone(r)
  \/ \E r \in Runs : ReaperFire(r)
  \/ \E r \in Runs : ReaperRmDone(r)
  \/ \E p \in Projects : GET_Begin(p)
  \/ GET_ProbeDone
  \/ GET_Respond

Spec == Init /\ [][Next]_vars

\* ------------------------------------------- one bundle entry, lines 102-113

\* path segments a key of the bundle is made of, split at "/"; "otherId" is
\* the identifier of another project
Segments == {"src", "app.ts", "..", ".", "otherId"}

\* the keys of generatedFiles: any string; here up to MaxSegs segments
FilePaths == UNION {[1..n -> Segments] : n \in 1..MaxSegs}

\* process.cwd()/temp-projects/<projectId>, an absolute path
WorkspaceRoot == <<"cwd", "temp-projects", "projectId">>

\* the same for the other project
OtherWorkspaceRoot == <<"cwd", "temp-projects", "otherId">>

\* path.normalize of an absolute path, segment by segment: "." is dropped, ".."
\* drops the segment before it (at "/" it is dropped itself)
RECURSIVE Normalize(_, _)
Normalize(done, rest) ==
  IF rest = <<>> THEN done
  ELSE IF Head(rest) = "." THEN Normalize(done, Tail(rest))
  ELSE IF Head(rest) = ".."
       THEN Normalize(IF done = <<>> THEN done ELSE SubSeq(done, 1, Len(done) - 1),
                      Tail(rest))
  ELSE Normalize(Append(done, Head(rest)), Tail(rest))

\* path.join(tempDir, filepath)
Join(dir, filepath) == Normalize(<<>>, dir \o filepath)

\* path.dirname(fullPath)
Dirname(path) == IF path = <<>> THEN path ELSE SubSeq(path, 1, Len(path) - 1)

IsPrefix(a, b) == Len(a) <= Len(b) /\ SubSeq(b, 1, Len(a)) = a

\* lines 102-107: fullPath is joined and fs.mkdir(dirname, {recursive: true}) awaited
JoinPath ==
  /\ write.pc = "entry"
  /\ write' = [write EXCEPT !.pc = "mkdir", !.target = Join(WorkspaceRoot, write.file)]
  /\ UNCHANGED <<sandbox, cmd, manifest, split>>

\* lines 107-110: the directory is there; fs.writeFile(fullPath) creates the
\* file, or rejects with EISDIR when fullPath is a directory on the way to tempDir
WriteFile ==
  /\ write.pc = "mkdir"
  /\ write' = [write EXCEPT !.pc = IF IsPrefix(write.target, WorkspaceRoot)
                                   THEN "rejected" ELSE "written"]
  /\ UNCHANGED <<sandbox, cmd, manifest, split>>

PathInit ==
  /\ SandboxInit
  /\ cmd = NoCmd
  /\ manifest = NoManifest
  /\ split = NoSplit
  /\ \E f \in FilePaths : write = [pc |-> "entry", file |-> f, target |-> <<>>]

PathNext == JoinPath \/ WriteFile

PathSpec == PathInit /\ [][PathNext]_vars

\* ------------------------------------------------ runCommand, lines 318-349

Chunks == {"x", "y"}
ExitCodes == {0, 1}
Pending == [success |-> FALSE, text |-> <<"pending">>]
NoEvent == [kind |-> "none"]

\* `error || \`Command failed with code ${code}\``: '' is falsy
OrMessage(error, code) == IF error # <<>> THEN error ELSE <<"Command failed with code", code>>

\* the 'close' handler, lines 337-343
CloseResult(code, output, error) ==
  IF code = 0
  THEN [success |-> TRUE, text |-> output]
  ELSE [success |-> FALSE, text |-> OrMessage(error, code)]

\* the 'error' handler, lines 345-347
ErrorResult(msg) == [success |-> FALSE, text |-> <<msg>>]

\* every call of resolve replaces the promise's value
PromiseResolve_LastWins(cur, value) == value

\* resolve(value) of a promise: only the first call settles it
PromiseResolve(cur, value) == IF cur = Pending THEN value ELSE cur

\* history: the first event that called resolve, with what the child had
\* written by then
FirstEvent(c, e) == IF c.first = NoEvent THEN e ELSE c.first

\* lines 329-331: stdout 'data' is appended to `output`
StdoutData ==
  /\ cmd.pc = "spawned"
  /\ ~cmd.closed
  /\ Len(cmd.written.out) < MaxChunks
  /\ \E c \in Chunks :
       cmd' = [cmd EXCEPT !.written.out = Append(@, c), !.output = Append(@, c)]
  /\ UNCHANGED <<sandbox, write, manifest, split>>

\* lines 333-335: stderr 'data' is appended to `error`
StderrData ==
  /\ cmd.pc = "spawned"
  /\ ~cmd.closed
  /\ Len(cmd.written.err) < MaxChunks
  /\ \E c \in Chunks :
       cmd' = [cmd EXCEPT !.written.err = Append(@, c), !.error = Append(@, c)]
  /\ UNCHANGED <<sandbox, write, manifest, split>>

\* lines 337-343: the child's streams are closed, with its exit code
CloseEvent ==
  /\ cmd.pc = "spawned"
  /\ ~cmd.closed
  /\ \E code \in ExitCodes :
       cmd' = [cmd EXCEPT
                 !.closed = TRUE,
                 !.result = PromiseResolve(@, CloseResult(code, cmd.output, cmd.error)),
                 !.first = FirstEvent(cmd, [kind |-> "close", code |-> code,
                                            out |-> cmd.written.out,
                                            err |-> cmd.written.err])]
  /\ UNCHANGED <<sandbox, write, manifest, split>>

\* lines 345-347: the child could not be spawned (or signalled); 'close' may follow
ErrorEvent ==
  /\ cmd.pc = "spawned"
  /\ ~cmd.closed
  /\ ~cmd.errored
  /\ \E msg \in {"spawn ENOENT"} :
       cmd' = [cmd EXCEPT
                 !.errored = TRUE,
                 !.result = PromiseResolve(@, ErrorResult(msg)),
                 !.first = FirstEvent(cmd, [kind |-> "error", msg |-> msg])]
  /\ UNCHANGED <<sandbox, write, manifest, split>>

\* lines 319-327: spawn(command, args, {cwd, shell: true}) inside new Promise
RunCommandInit ==
  /\ SandboxInit
  /\ write = NoWrite
  /\ manifest = NoManifest
  /\ split = NoSplit
  /\ cmd = [pc |-> "spawned", written |-> [out |-> <<>>, err |-> <<>>],
            output |-> <<>>, error |-> <<>>, closed |-> FALSE, errored |-> FALSE,
            result |-> Pending, first |-> NoEvent]

RunCommandNext == StdoutData \/ StderrData \/ CloseEvent \/ ErrorEvent

RunCommandSpec == RunCommandInit /\ [][RunCommandNext]_vars

\* ----------------------------------------- the manifest step, lines 117-147

CanonNames == {"build", "dev", "start", "test"}
ScriptNames == CanonNames \cup {"lint"}
ScriptValues == {"tsc", "jest"}

\* lines 140-143
Canonical(n) ==
  CASE n = "build" -> "tsc"
    [] n = "dev" -> "ts-node src/app.ts"
    [] n = "start" -> "node dist/app.js"
    [] n = "test" -> "echo \"No tests specified\" && exit 0"

\* the scripts objects a package.json of a bundle may hold
ScriptMaps == UNION {[D -> ScriptValues] : D \in SUBSET ScriptNames}

\* what fs.readFile + JSON.parse meet: no file, text that is no JSON, the JSON
\* value null, or an object
ManifestFiles ==
  {[kind |-> k, content |-> <<>>] : k \in {"missing", "unparseable", "null"}}
    \cup {[kind |-> "object",
           content |-> [name |-> "given", version |-> "0.3.0", scripts |-> sm,
                        dependencies |-> {"express"}, devDependencies |-> {}]] :
          sm \in ScriptMaps}

\* lines 126-134: the basic package.json of the catch branch
Synthesized ==
  [name |-> "project-name", version |-> "1.0.0", scripts |-> <<>>,
   dependencies |-> {}, devDependencies |-> {}]

\* a script that is already there is kept
MergeScripts_ExistingWins(scripts) ==
  [n \in (DOMAIN scripts) \cup CanonNames |->
     IF n \in DOMAIN scripts THEN scripts[n] ELSE Canonical(n)]

\* lines 138-144: {...packageJson.scripts, build, dev, start, test}
MergeScripts(scripts) ==
  [n \in (DOMAIN scripts) \cup CanonNames |->
     IF n \in CanonNames THEN Canonical(n) ELSE scripts[n]]

\* lines 121-134: read and parse, or fall back to the basic package.json; the
\* value null parses, and line 138 then throws reading null.scripts
ReadManifest ==
  /\ manifest.pc = "read"
  /\ manifest' =
       IF manifest.file.kind \in {"missing", "unparseable"}
       THEN [manifest EXCEPT !.pc = "merge", !.json = Synthesized]
       ELSE IF manifest.file.kind = "null"
       THEN [manifest EXCEPT !.pc = "threw"]
       ELSE [manifest EXCEPT !.pc = "merge", !.json = manifest.file.content]
  /\ UNCHANGED <<sandbox, write, cmd, split>>

\* lines 137-147: the scripts are merged and package.json is written
WriteManifest ==
  /\ manifest.pc = "merge"
  /\ manifest' = [manifest EXCEPT
                    !.pc = "written",
                    !.out = [manifest.json EXCEPT !.scripts = MergeScripts(@)]]
  /\ UNCHANGED <<sandbox, write, cmd, split>>

ManifestInit ==
  /\ SandboxInit
  /\ write = NoWrite
  /\ cmd = NoCmd
  /\ split = NoSplit
  /\ \E f \in ManifestFiles :
       manifest = [pc |-> "read", file |-> f, json |-> Synthesized, out |-> Synthesized]

ManifestNext == ReadManifest \/ WriteManifest

ManifestSpec == ManifestInit /\ [][ManifestNext]_vars

\* --------------------------------------------- setup command line (168-169)
\* One stored setup command, taken from its string to the program and the
\* argument vector handed to runCommand.  A string is a sequence of characters.
MaxCmdLen == 4

Space == " "
Tab == "\t"
CmdChars == {"n", "i", Space, Tab}

\* the command strings of a setup row, 1..MaxCmdLen characters
CommandStrings == UNION {[1..n -> CmdChars] : n \in 1..MaxCmdLen}

\* String.prototype.split(' '): the pieces between single spaces, empty
\* pieces kept; cur is the piece being collected
RECURSIVE SplitSpace(_, _)
SplitSpace(s, cur) ==
  IF s = <<>> THEN <<cur>>
  ELSE IF Head(s) = Space THEN <<cur>> \o SplitSpace(Tail(s), <<>>)
  ELSE SplitSpace(Tail(s), Append(cur, Head(s)))

\* line 168: const [cmd, ...args] = setupCmd.command.split(' ')
SplitCommand ==
  /\ split.pc = "row"
  /\ LET pieces == SplitSpace(split.command, <<>>)
     IN split' = [split EXCEPT !.pc = "split",
                               !.program = Head(pieces),
                               !.args = Tail(pieces)]
  /\ UNCHANGED <<sandbox, write, cmd, manifest>>

\* line 169: runCommand(cmd, args, tempDir) is called with what line 168 gave
CallRunCommand ==
  /\ split.pc = "split"
  /\ split' = [split EXCEPT !.pc = "called"]
  /\ UNCHANGED <<sandbox, write, cmd, manifest>>

SplitInit ==
  /\ SandboxInit
  /\ write = NoWrite
  /\ cmd = NoCmd
  /\ manifest = NoManifest
  /\ \E c \in CommandStrings :
       split = [pc |-> "row", command |-> c, program |-> <<>>, args |-> <<>>]

SplitNext == SplitCommand \/ CallRunCommand

SplitSpec == SplitInit /\ [][SplitNext]_vars

\* ================================================================= claims

EntryOf(p) == runningProjects[p]
Registered(r) == runs[r].proj # 0 /\ EntryOf(runs[r].proj).process = r
Returns(r) == runs[r].pc # "done" /\ runs'[r].pc = "done"
Spawns(r) == procs[r] = "none" /\ procs'[r] # "none"
LaunchFailed(r) == runs[r].launch \in {"TimedOut", "ExitedEarly"}

\* C1: when POST is invoked for an id that still has a registered instance, that
\* instance's server process is terminated and its workspace removed before the
\* new run's server process is spawned.
C1_PriorEvictedBeforeStart ==
  [][\A r \in Runs :
       (Spawns(r) /\ runs[r].prior # NoRun)
         => /\ procs[runs[r].prior] # "live"
            /\ rmRejected \/ runs[r].prior \notin dirs[tempDirOf(runs[r].proj)].files]_vars

\* C2: once every POST of an id has returned and no reaper of it is in the middle
\* of its cleanup, at most one launched server process of that id is alive, and
\* it is the one the registry entry of the id refers to.
C2_OneInstancePerId ==
  \A p \in Projects :
    LET mine == {r \in Runs : runs[r].proj = p}
        live == {r \in mine : procs[r] = "live"}
    IN  (\A r \in mine : runs[r].pc = "done" /\ reaper[r] # "rm")
          => /\ Cardinality(live) <= 1
             /\ \A r \in live : EntryOf(p).process = r

\* C3: a run whose `npm install` failed has returned naming the step
\* "npm install"; it ran no setup command and no build, spawned no server,
\* armed no timer and inserted no registry entry.
C3_InstallFailureHalts ==
  \A r \in Runs :
    runs[r].install = "fail"
      => /\ runs[r].pc = "done"
         /\ runs[r].result = Failure("npm install")
         /\ runs[r].setupRun = 0
         /\ runs[r].build = "none"
         /\ runs[r].launch = "none"
         /\ procs[r] = "none"
         /\ startTimer[r] = "unset"
         /\ reaper[r] = "unset"
         /\ ~Registered(r)

C3_Witness ==
  \E r \in Runs : runs[r].install = "fail" /\ runs[r].pc = "done"

\* C4: when a POST whose install step failed returns, its workspace directory
\* does not exist.
C4_InstallFailureRemovesWorkspace ==
  [][\A r \in Runs :
       (Returns(r) /\ runs'[r].install = "fail")
         => ~dirs'[tempDirOf(runs[r].proj)].exists]_vars

\* C5: when a POST returns with a build failure or a launch failure, the server
\* process it spawned (if any) is terminated and its workspace is deleted.
C5_BuildOrLaunchFailureCleansUp ==
  [][\A r \in Runs :
       (Returns(r) /\ (runs'[r].build = "fail" \/ LaunchFailed(r)'))
         => /\ procs'[r] # "live"
            /\ ~dirs'[tempDirOf(runs[r].proj)].exists]_vars

\* C6: no exit path leaves a workspace or a server process behind: once every
\* POST has returned and no timer is pending, no workspace exists and no
\* spawned server process is alive (unless an fs.rm itself rejected).
NothingPending ==
  \A r \in Runs :
    /\ runs[r].pc \in {"idle", "done"}
    /\ startTimer[r] # "pending"
    /\ reaper[r] \notin {"pending", "rm"}

C6_EverythingTornDown ==
  (NothingPending /\ ~rmRejected)
    => /\ \A p \in Projects : ~dirs[p].exists
       /\ \A r \in Runs : procs[r] # "live"

\* C7: a launch that ended TimedOut has answered 'server start', its process is
\* killed unless it had exited already, and the run added no registry entry and
\* scheduled no reaper.
C7_TimeoutFailsAndKills ==
  \A r \in Runs :
    runs[r].launch = "TimedOut"
      => /\ runs[r].pc = "done"
         /\ runs[r].result = Failure("server start")
         /\ procs[r] \in {"killed", "exited"}
         /\ ~Registered(r)
         /\ reaper[r] = "unset"

C7_Witness ==
  \E r \in Runs : runs[r].launch = "TimedOut" /\ procs[r] = "killed"

\* C8: every registry entry was inserted by a run of that id whose install and
\* build succeeded and whose launch resolved Ready; a run that failed at install,
\* build or launch owns no entry and scheduled no reaper (so it never changes
\* the registry).
C8_OnlyReadyRegisters ==
  /\ \A p \in Projects :
       EntryOf(p) # NoEntry
         => LET r == EntryOf(p).process
            IN  /\ runs[r].proj = p
                /\ runs[r].install = "ok"
                /\ runs[r].build = "ok"
                /\ runs[r].launch = "Ready"
  /\ \A r \in Runs :
       (LaunchFailed(r) \/ runs[r].install = "fail" \/ runs[r].build = "fail")
         => ~Registered(r) /\ reaper[r] = "unset"

C8_Witness ==
  \E r, q \in Runs : Registered(r) /\ LaunchFailed(q) /\ runs[q].proj = runs[r].proj

\* C9: every registry entry refers to a server process that has not been killed,
\* and GET never answers running: true for an instance whose process has been
\* killed.
C9_RegisteredMeansAlive ==
  /\ \A p \in Projects :
       EntryOf(p) # NoEntry => procs[EntryOf(p).process] # "killed"
  /\ (status.pc = "done" /\ status.result = "running")
       => procs[status.entry.process] # "killed"

\* C10: when the reaper of a successful run has finished, the instance's process
\* is terminated, its registry entry is removed and its workspace is gone
\* (unless fs.rm itself rejected).
C10_ReaperTearsDown ==
  [][\A r \in Runs :
       (reaper[r] = "rm" /\ reaper'[r] = "done")
         => /\ procs'[r] # "live"
            /\ rmRejected' \/ ~dirs'[tempDirOf(runs[r].proj)].exists
            /\ ~Registered(r)']_vars

\* C11: the reaper's three steps do not depend on one another: when the reaper of
\* a run has finished, the registry entry of its id is removed whether or not
\* the deletion of the workspace succeeded.
C11_ReaperStepsIndependent ==
  [][\A r \in Runs :
       (reaper[r] = "rm" /\ reaper'[r] = "done")
         => EntryOf(runs[r].proj)' = NoEntry]_vars

InProgress(r) == runs[r].pc \notin {"idle", "done"}
SameId(r, q) == runs[r].proj # 0 /\ runs[r].proj = runs[q].proj

\* a step of run r's reaper, or of its failure cleanup
CleanupStep(r) ==
  \/ reaper[r] \in {"pending", "rm"} /\ reaper'[r] # reaper[r]
  \/ runs[r].pc = "catchRm" /\ runs'[r].pc = "done"

\* C12: no cleanup step of a run (reaper or failure cleanup) is taken while a
\* newer run of the same id is in progress or registered, and such a step
\* leaves the newer run's process, workspace files and registry entry as they are.
C12_CleanupSparesNewerRun ==
  [][\A r, q \in Runs :
       (q > r /\ SameId(r, q) /\ CleanupStep(r))
         => /\ ~(InProgress(q) \/ Registered(q))
            /\ procs'[q] = procs[q]
            /\ (q \in dirs[tempDirOf(runs[q].proj)].files
                  => q \in dirs'[tempDirOf(runs[q].proj)].files)
            /\ (Registered(q) => Registered(q)')]_vars

\* run q is materializing, installing, building or serving in its workspace
UsesWorkspace(q) ==
  \/ runs[q].pc \in {"mkdir", "write", "manifest", "install", "setup", "build",
                     "launch", "probe"}
  \/ Registered(q) /\ procs[q] = "live"

\* a step of run r that removes, recreates or writes into the workspace
WorkspaceStep(r) ==
  /\ runs[r].pc \in {"rmOld", "mkdir", "write"}
  /\ runs'[r] # runs[r]
  /\ dirs'[tempDirOf(runs[r].proj)] # dirs[tempDirOf(runs[r].proj)]

\* C13: a workspace has one owner at a time: no run removes, recreates or writes
\* into the workspace of an id while another run of that id is materializing,
\* installing, building or serving.
C13_WorkspaceExclusive ==
  [][\A r, q \in Runs :
       (r # q /\ SameId(r, q) /\ WorkspaceStep(r)) => ~UsesWorkspace(q)]_vars

\* C14: the setup commands of a run are spawned in strictly ascending `order`,
\* the first only after `npm install` succeeded and each next one only after the
\* one before it resolved, so at most one of them is running at any time.
C14_SetupInAscendingOrder ==
  \A r \in Runs :
    LET log == runs[r].setupLog
    IN  /\ \A i, j \in 1..Len(log) : i < j => log[i] < log[j]
        /\ log # <<>> => runs[r].install = "ok"
        /\ Len(log) = runs[r].setupRun + (IF runs[r].pc = "setup" THEN 1 ELSE 0)

C14_Witness ==
  \E r \in Runs : Len(runs[r].setupLog) >= 2 /\ runs[r].pc = "setup"

\* C15: a run one of whose setup commands failed is not aborted by it: once it
\* is past the setup loop every setup command has been run and `npm run build`
\* has been started.
C15_SetupFailureTolerated ==
  \A r \in Runs :
    runs[r].setupFail
      => \/ runs[r].pc = "setup"
         \/ /\ runs[r].setupRun = Len(runs[r].cmds)
            /\ Len(runs[r].setupLog) = Len(runs[r].cmds)
            /\ runs[r].pc = "build" \/ runs[r].build # "none"

\* a run with a failed setup command that returned success: true
C15_Witness ==
  \E r \in Runs : runs[r].setupFail /\ runs[r].pc = "done" /\ runs[r].result = Success

\* the steps of run r that its own awaited operations bring about once install
\* and build terminate: file operations, timers, the probe, a spawn error; the
\* exit of a setup command and the output or exit of the server are not among them
RunStepWithoutExit(r) ==
  \/ RmOldDone(r) \/ MkdirDone(r) \/ WriteDone(r) \/ ManifestDone(r)
  \/ CatchRmDone(r) \/ InstallDone(r) \/ BuildDone(r)
  \/ ServerError(r) \/ StartTimerFire(r) \/ ProbeDone(r)

\* C16: no step of a run waits on a child that may never exit: whenever a run
\* is in progress, one of the steps that do not need a setup command or the
\* server to exit can be taken.
C16_NoStepBlocksForever ==
  \A r \in Runs : (Turn /\ InProgress(r)) => ENABLED RunStepWithoutExit(r)

\* C17: GET for an id with no registry entry (and a signed-in caller) answers
\* running: false at once: no error, no probe.
C17_NotRunningWithoutProbe ==
  [][\A p \in Projects :
       (GET_Begin(p) /\ EntryOf(p) = NoEntry /\ status'.result # "401")
         => status' = [IdleStatus EXCEPT !.pc = "done", !.result = "notRunning"]]_vars

C17_Witness ==
  /\ status.pc = "done" /\ status.result = "notRunning"
  /\ \E p \in Projects : EntryOf(p) = NoEntry

\* C18: GET for an id with a registry entry (and a signed-in caller) probes the
\* port of exactly that entry and answers running: true with that entry's port
\* and start time and with the probe's result, which is `ok` only if a live
\* server listens on that port.
C18_RunningReportsRegisteredInstance ==
  [][/\ \A p \in Projects :
          (GET_Begin(p) /\ EntryOf(p) # NoEntry /\ status'.result # "401")
            => status'.pc = "probe" /\ status'.entry = EntryOf(p)
     /\ (status.pc = "probe" /\ status'.pc = "done")
          => /\ status'.result = "running"
             /\ status'.entry = status.entry
             /\ status'.health \in {"ok", "fail"}
             /\ status'.health = "ok"
                  => \E q \in Runs : procs[q] = "live" /\ runs[q].port = status.entry.port]_vars

C18_Witness ==
  /\ status.pc = "done" /\ status.result = "running"
  /\ \E p \in Projects : EntryOf(p) = status.entry

\* C19: a probe that fails after a Ready launch does not abort the run: the run
\* returns success: true with the failed probe in the body, the instance is
\* registered and its reaper is scheduled.
C19_FailedProbeStillSucceeds ==
  [][\A r \in Runs :
       (runs[r].pc = "probe" /\ runs'[r].pc = "done" /\ runs'[r].health = "fail")
         => /\ runs[r].launch = "Ready"
            /\ runs'[r].result = Success
            /\ Registered(r)'
            /\ reaper'[r] = "pending"]_vars

C19_Witness ==
  \E r \in Runs : runs[r].health = "fail" /\ runs[r].result = Success /\ Registered(r)

StepNames == {"npm install", "npm run build", "server start"}

\* C20: every 200 and every 500 answer of POST carries a success flag, and
\* every one whose flag is false names the failing step.
C20_EveryResultFlaggedAndNamed ==
  \A r \in Runs :
    (runs[r].pc = "done" /\ runs[r].result.status \in {200, 500})
      => /\ runs[r].result.success \in {"true", "false"}
         /\ runs[r].result.success = "false" => runs[r].result.step \in StepNames

C22_ParseFailureTouchesNothing ==
  [][\A r \in Runs :
       runs'[r].blob = "invalid"
         => /\ runs'[r].pc = "done"
            /\ runs'[r].result = Rejected(500)
            /\ runs'[r].install = "none" /\ runs'[r].build = "none"
            /\ runs'[r].setupLog = <<>>
            /\ procs'[r] = "none"
            /\ startTimer'[r] = "unset" /\ reaper'[r] = "unset"
            /\ ~Registered(r)'
            /\ r \notin dirs'[tempDirOf(runs'[r].proj)].files
            /\ runs[r].blob # "invalid"
                 => UNCHANGED <<dirs, procs, runningProjects, startTimer, reaper>>]_vars

\* a parse failure for an id whose earlier run is registered with its workspace
C22_Witness ==
  \E r, q \in Runs :
    /\ runs[r].blob = "invalid" /\ SameId(r, q)
    /\ Registered(q) /\ dirs[tempDirOf(runs[q].proj)].exists

\* C24: when the manifest step of a run is over, the workspace holds the files
\* of that run's bundle and no file of any other run of the id.
C24_ExactlyTheBundle ==
  [][\A r \in Runs :
       (runs[r].pc = "manifest" /\ runs'[r].pc = "install")
         => /\ dirs'[tempDirOf(runs[r].proj)].exists
            /\ dirs'[tempDirOf(runs[r].proj)].files \subseteq {r}]_vars

\* C25: the port of every run that returned success is in 3001..9999.
C25_PortInRange ==
  \A r \in Runs :
    runs[r].result = Success => runs[r].port \in PortLow..PortHigh

\* a successful run whose port came from the largest draw of Math.random()
C25_Witness ==
  \E r \in Runs : runs[r].result = Success /\ runs[r].port = PortOf(RandUnits - 1)

\* C26: a run whose `npm run build` failed has returned naming the step
\* "npm run build"; it drew no port, spawned no server, armed no timer and
\* inserted no registry entry.
C26_BuildFailureHalts ==
  \A r \in Runs :
    runs[r].build = "fail"
      => /\ runs[r].pc = "done"
         /\ runs[r].result = Failure("npm run build")
         /\ runs[r].port = 0
         /\ runs[r].launch = "none"
         /\ procs[r] = "none"
         /\ startTimer[r] = "unset"
         /\ reaper[r] = "unset"
         /\ ~Registered(r)

C26_Witness ==
  \E r \in Runs : runs[r].build = "fail" /\ runs[r].pc = "done" /\ runs[r].setupFail

LaunchOutcomes == {"Ready", "TimedOut", "ExitedEarly"}

\* C27: a launch goes from Starting to exactly one of Ready, TimedOut and
\* ExitedEarly and keeps it whatever happens later; while it is Starting its
\* 30 s timer is pending; Ready is reached only while the child has not exited,
\* TimedOut only in the step of the timer, ExitedEarly only in the step of an
\* exit or a spawn error.
C27_OneLaunchOutcome ==
  [][\A r \in Runs :
       /\ runs[r].launch = "Starting" => startTimer[r] = "pending"
       /\ runs'[r].launch # runs[r].launch
            => \/ runs[r].launch = "none" /\ runs'[r].launch = "Starting"
               \/ runs[r].launch = "Starting" /\ runs'[r].launch \in LaunchOutcomes
       /\ (runs[r].launch = "Starting" /\ runs'[r].launch = "Ready")
            => procs[r] = "live" /\ procs'[r] = "live"
       /\ (runs[r].launch = "Starting" /\ runs'[r].launch = "TimedOut")
            => startTimer'[r] = "fired"
       /\ (runs[r].launch = "Starting" /\ runs'[r].launch = "ExitedEarly")
            => procs[r] \in {"live", "spawnerr"} /\ procs'[r] \in {"exited", "failed"}]_vars

\* a launch that was Ready when its timer fired, and one whose child exited
\* with code 0 before it was ready
C27_Witness ==
  \E r, q \in Runs :
    /\ runs[r].launch = "Ready" /\ startTimer[r] = "fired"
    /\ runs[q].launch = "TimedOut" /\ procs[q] = "exited"

\* C30: the reaper of a run is armed once, in the step that registers the run
\* and returns success; a run that returns anything else has no reaper.
C30_OneReaperPerSuccess ==
  [][\A r \in Runs :
       /\ (reaper'[r] = "pending" /\ reaper[r] # "pending")
            => /\ reaper[r] = "unset"
               /\ ~Registered(r) /\ Registered(r)'
               /\ Returns(r) /\ runs'[r].result = Success
       /\ (Returns(r) /\ runs'[r].result = Success) => reaper'[r] = "pending"
       /\ (Returns(r) /\ runs'[r].result # Success) => reaper'[r] = "unset"
       /\ reaper[r] = "unset" => reaper'[r] \in {"unset", "pending"}]_vars

C30_Witness ==
  \E r, q \in Runs :
    /\ reaper[r] = "pending" /\ Registered(r)
    /\ runs[q].result = Failure("server start") /\ reaper[q] = "unset"

\* C23: every file of a bundle is written under the workspace root, whatever
\* parent-directory segments its path holds.
C23_WritesStayInWorkspace ==
  write.pc = "written"
    => IsPrefix(WorkspaceRoot, write.target) /\ write.target # WorkspaceRoot

\* what the claim says the first settling event yields
Expected(e) ==
  IF e.kind = "error" THEN [success |-> FALSE, text |-> <<e.msg>>]
  ELSE IF e.code = 0 THEN [success |-> TRUE, text |-> e.out]
  ELSE IF e.err # <<>> THEN [success |-> FALSE, text |-> e.err]
  ELSE [success |-> FALSE, text |-> <<"Command failed with code", e.code>>]

\* C28: runCommand's promise is settled by the first 'close' or 'error' event
\* and keeps that value: exit code 0 gives success with all of stdout, another
\* code gives failure with all of stderr (or the exit-code message when stderr
\* is empty), an 'error' event gives failure with its message.
C28_RunCommandResolvesOnce ==
  [][/\ (cmd'.closed \/ cmd'.errored) => cmd'.result # Pending
     /\ cmd'.result # Pending
          => cmd'.first # NoEvent /\ cmd'.result = Expected(cmd'.first)
     /\ cmd.result # Pending => cmd'.result = cmd.result]_vars

\* an 'error' event was followed by 'close'
C28_Witness ==
  /\ cmd.errored /\ cmd.closed
  /\ cmd.first.kind = "error"
  /\ cmd.result = [success |-> FALSE, text |-> <<"spawn ENOENT">>]

\* C29: the package.json that the manifest step writes has the four canonical
\* scripts with their canonical values and every other script of the bundle's
\* package.json unchanged; when there was no package.json, or none that parses,
\* it is the basic one: name, version 1.0.0, no dependencies, the four scripts.
C29_CanonicalScriptsMerged ==
  manifest.pc = "written"
    => /\ \A n \in CanonNames :
            n \in DOMAIN manifest.out.scripts /\ manifest.out.scripts[n] = Canonical(n)
       /\ manifest.file.kind = "object"
            => \A n \in (DOMAIN manifest.file.content.scripts) \ CanonNames :
                 /\ n \in DOMAIN manifest.out.scripts
                 /\ manifest.out.scripts[n] = manifest.file.content.scripts[n]
       /\ manifest.file.kind \in {"missing", "unparseable"}
            => /\ manifest.out.name = "project-name"
               /\ manifest.out.version = "1.0.0"
               /\ manifest.out.dependencies = {}
               /\ manifest.out.devDependencies = {}
               /\ DOMAIN manifest.out.scripts = CanonNames

\* a package.json with its own build script and a lint script went through
C29_Witness ==
  /\ manifest.pc = "written"
  /\ manifest.file.kind = "object"
  /\ {"build", "lint"} \subseteq DOMAIN manifest.file.content.scripts
  /\ manifest.file.content.scripts["build"] = "jest"
  /\ manifest.out.scripts["lint"] = "jest"

\* ---- C31 -------------------------------------------------------------------
IsWhitespace(ch) == ch \in {Space, Tab}

\* the non-empty tokens of s between runs of whitespace, in order
RECURSIVE WhitespaceTokens(_, _)
WhitespaceTokens(s, cur) ==
  IF s = <<>> THEN (IF cur = <<>> THEN <<>> ELSE <<cur>>)
  ELSE IF IsWhitespace(Head(s))
       THEN (IF cur = <<>> THEN <<>> ELSE <<cur>>) \o WhitespaceTokens(Tail(s), <<>>)
       ELSE WhitespaceTokens(Tail(s), Append(cur, Head(s)))

StartTimerGoesOff(r) == startTimer[r] = "pending" /\ startTimer'[r] = "fired"

\* C32: once the launch of a run has resolved Ready, its 30 s startup timer
\* does nothing more: when it goes off it leaves the server process as it is.
C32_StartTimerSparesReady ==
  [][\A r \in Runs :
       (runs[r].launch = "Ready" /\ StartTimerGoesOff(r))
         => procs'[r] = procs[r]]_vars

\* ---- C33 -------------------------------------------------------------------
\* a step of the reaper that run r scheduled
ReaperStep(r) == reaper[r] \in {"pending", "rm"} /\ reaper'[r] # reaper[r]

\* C33: the reaper scheduled by one run tears down only what that run
\* registered: while another run of the same id holds the registry entry, a step
\* of the older run's reaper leaves that entry, its server process and the
\* workspace as they are.
C33_ReaperOnlyOwnInstance ==
  [][\A r, q \in Runs :
       (r # q /\ SameId(r, q) /\ Registered(q) /\ ReaperStep(r))
         => /\ runningProjects'[runs[q].proj] = runningProjects[runs[q].proj]
            /\ procs'[q] = procs[q]
            /\ dirs'[tempDirOf(runs[q].proj)] = dirs[tempDirOf(runs[q].proj)]]_vars

\* ---- C34 -------------------------------------------------------------------
\* C34: whenever the registry holds an entry for an id, the workspace directory
\* recorded in the entry exists on disk.
C34_EntryHasWorkspace ==
  \A p \in Projects :
    EntryOf(p) # NoEntry => dirs[EntryOf(p).tempDir].exists

\* ---- C35 -------------------------------------------------------------------
\* a step of the GET handler
StatusStep == status' # status

\* C35: GET is read-only: whatever run and reaper steps it is interleaved with,
\* no step of the GET handler changes the registry, a server process or a
\* workspace.
C35_StatusReadOnly ==
  [][StatusStep => UNCHANGED <<runningProjects, procs, dirs>>]_vars

\* a GET has probed a registered instance, the probe failed, and the entry, its
\* process and its workspace are still there while another run is under way
C35_Witness ==
  /\ status.pc = "done"
  /\ status.result = "running"
  /\ status.health = "fail"
  /\ \E p \in Projects :
       /\ EntryOf(p) = status.entry
       /\ procs[EntryOf(p).process] = "live"
       /\ dirs[EntryOf(p).tempDir].exists
  /\ \E q \in Runs : InProgress(q)

\* ---- C36 -------------------------------------------------------------------
\* C36: runs of different ids do not interfere; in particular no file of the
\* bundle of one id is written inside the workspace of another id.
C36_OtherWorkspaceUntouched ==
  write.pc = "written"
    => ~(IsPrefix(OtherWorkspaceRoot, write.target) /\ write.target # OtherWorkspaceRoot)

\* ---- C37 -------------------------------------------------------------------
\* the checks of lines 22-66 found something missing
FailedChecks == PreOutcomes \ {"ok"}

\* C37: a POST that is not authenticated, whose project is not found or whose
\* latest generation is not COMPLETED answers with its rejection in the same
\* step and does nothing else: no workspace is created or removed, no process
\* spawned, no timer armed, and the registry is left as it was.
C37_RejectionHasNoEffect ==
  [][\A r \in Runs :
       (runs'[r] # runs[r] /\ runs'[r].pre \in FailedChecks)
         => /\ runs'[r].pc = "done"
            /\ runs'[r].result = Rejected(CodeOf(runs'[r].pre))
            /\ UNCHANGED <<runningProjects, dirs, procs, startTimer, reaper>>]_vars

\* a POST for an id was rejected after another run of that id had registered,
\* and that instance is still registered, alive and in its workspace
C37_Witness ==
  \E r, q \in Runs :
    /\ SameId(r, q)
    /\ runs[r].prior = q
    /\ runs[r].pc = "done"
    /\ runs[r].pre = "notCompleted"
    /\ runs[r].result = Rejected(400)
    /\ Registered(q)
    /\ procs[q] = "live"
    /\ dirs[tempDirOf(runs[q].proj)].exists

====
